---- MODULE Spec2Model ----
(***************************************************************************)
(* fp::FpWrapper<PointerType> and fp::get_fsz<PointerType> of fpwrap.h.    *)
(*                                                                         *)
(* Two state machines share this module.                                   *)
(*  - The handle machine (Spec, CopySpec): a few FpWrapper objects of one  *)
(*    instantiation, the backend's table of open resources, and a log of   *)
(*    the backend release calls (fclose / gzclose).                        *)
(*  - The probe machine (ProbeSpec, ProbeLive): one call of get_fsz, run   *)
(*    statement by statement, followed by a handle that reads the same     *)
(*    stream through FpWrapper::read until end-of-stream.                  *)
(* Memory exhaustion (std::bad_alloc from buf_ or path_) is not modelled.  *)
(***************************************************************************)
EXTENDS Integers, FiniteSets, Sequences, TLC

VARIABLES
    kind,       \* the PointerType of the instantiation: "fp" (std::FILE *) or "gz" (gzFile)
    status,     \* per handle object: "none" (not constructed), "alive", "dead" (destroyed)
    ptr,        \* per handle: ptr_ (NULL or a resource)
    path,       \* per handle: path_ ("" when empty)
    live,       \* backend: the resources currently open
    nextRes,    \* backend: the next resource fopen/gzopen hands out
    relCount,   \* backend: number of release calls made on each pointer value, NULL included
    acq,        \* per handle: the resources its ptr_ has ever held
    last,       \* the last member function called and how it ended
    unguarded,  \* the caller has called close() on a handle whose is_open() was false
    crashed,    \* undefined behaviour ended the program
    pkind, openable, flen, failAt, statOK, rnb,   \* get_fsz: specialization and environment
    pc, pres, closes, nreads, pos, i, tot_read, st_size, warnings, result,
    rpc, rpos, rtot, rret                          \* the reading handle

hvars == <<kind, status, ptr, path, live, nextRes, relCount, acq, last, unguarded, crashed>>
pvars == <<pkind, openable, flen, failAt, statOK, rnb, pc, pres, closes, nreads, pos, i,
           tot_read, st_size, warnings, result, rpc, rpos, rtot, rret>>
vars == <<hvars, pvars>>

----------------------------------------------------------------------------
(* Bounds of the model *)
NumHandles == 1
MaxRes == 3
MaxRel == 2
MaxChunks == 2
MaxFail == 2

(* Program constants *)
NULL == 0

\* The handle objects used on their own, and one more for a copy to live in.
Handles == 1..NumHandles
AllHandles == 1..(NumHandles + 1)
Resources == 1..MaxRes
Pointers == {NULL} \cup Resources
Paths == {"a", "b"}
Kinds == {"fp", "gz"}

----------------------------------------------------------------------------
(* The handle machine *)

is_open(h) == ptr[h] # NULL

\* fclose(NULL) is undefined, gzclose(NULL) returns Z_STREAM_ERROR; releasing or
\* using a pointer the backend has already released is undefined for both.
Undefined(p) == IF p = NULL THEN kind = "fp" ELSE p \notin live

\* The outcomes of a backend call on p: it returns (FALSE), or, when the call is
\* undefined, it may also end the program (TRUE).
Outcomes(p) == IF Undefined(p) THEN BOOLEAN ELSE {FALSE}

\* The backend's side of fclose(p) / gzclose(p).
Released(p) == [relCount EXCEPT ![p] = @ + 1]
StillLive(p) == live \ {p}

\* close(): ptr_ = nullptr; path_.clear();
ClearedPtrLeak(h) == ptr
ClearedPtr(h) == [ptr EXCEPT ![h] = NULL]
ClearedPathKept(h) == path
ClearedPath(h) == [path EXCEPT ![h] = ""]

\* open(): if(ptr_) close();
ReopenClosesNever(h) == FALSE
ReopenCloses(h) == ptr[h] # NULL

\* ~FpWrapper(): if(ptr_) close();
DtorClosesNever(h) == FALSE
DtorClosesAlways(h) == TRUE
DtorCloses(h) == ptr[h] # NULL

\* open(): if(ptr_ == nullptr) throw std::runtime_error(...)
OpenThrowsNever(p) == FALSE
OpenThrows(p) == p = NULL

\* open(): if(path) path_ = path;  (reached only when nothing was thrown)
RecordedPath(old, p) == p

Called(op, h, raised, got, arg, prevPtr, prevPath) ==
    [op |-> op, h |-> h, raised |-> raised, got |-> got, arg |-> arg,
     prevPtr |-> prevPtr, prevPath |-> prevPath]

HandleInit ==
    /\ kind \in Kinds
    /\ status = [h \in AllHandles |-> "none"]
    /\ ptr = [h \in AllHandles |-> NULL]
    /\ path = [h \in AllHandles |-> ""]
    /\ live = {}
    /\ nextRes = 1
    /\ relCount = [p \in Pointers |-> 0]
    /\ acq = [h \in AllHandles |-> {}]
    /\ last = Called("none", 0, FALSE, NULL, "", NULL, "")
    /\ unguarded = FALSE
    /\ crashed = FALSE

\* FpWrapper(type ptr=nullptr) with the default argument.
ConstructDefault(h) ==
    /\ ~crashed /\ status[h] = "none"
    /\ status' = [status EXCEPT ![h] = "alive"]
    /\ ptr' = [ptr EXCEPT ![h] = NULL]
    /\ path' = [path EXCEPT ![h] = ""]
    /\ last' = Called("construct", h, FALSE, NULL, "", NULL, "")
    /\ UNCHANGED <<kind, live, nextRes, relCount, acq, unguarded, crashed>>

\* FpWrapper(type ptr) on a resource the caller has just opened itself.
ConstructRaw(h) ==
    /\ ~crashed /\ status[h] = "none"
    /\ nextRes <= MaxRes
    /\ status' = [status EXCEPT ![h] = "alive"]
    /\ ptr' = [ptr EXCEPT ![h] = nextRes]
    /\ path' = [path EXCEPT ![h] = ""]
    /\ live' = live \cup {nextRes}
    /\ nextRes' = nextRes + 1
    /\ acq' = [acq EXCEPT ![h] = @ \cup {nextRes}]
    /\ last' = Called("construct", h, FALSE, NULL, "", NULL, "")
    /\ UNCHANGED <<kind, relCount, unguarded, crashed>>

\* FpWrapper(const char *p, const char *m): ptr_(nullptr) { this->open(p, m); }
\* ok: whether fopen/gzopen can open p. An exception leaving the constructor
\* leaves no object behind.
ConstructPath(h, p, ok) ==
    LET new == IF ok THEN nextRes ELSE NULL
        thrown == OpenThrows(new)
    IN
    /\ ~crashed /\ status[h] = "none"
    /\ ok => nextRes <= MaxRes
    /\ status' = [status EXCEPT ![h] = IF thrown THEN "none" ELSE "alive"]
    /\ ptr' = [ptr EXCEPT ![h] = IF thrown THEN NULL ELSE new]
    /\ path' = [path EXCEPT ![h] = IF thrown THEN "" ELSE RecordedPath("", p)]
    /\ live' = IF ok THEN live \cup {new} ELSE live
    /\ nextRes' = IF ok THEN nextRes + 1 ELSE nextRes
    /\ acq' = [acq EXCEPT ![h] = IF thrown \/ new = NULL THEN @ ELSE @ \cup {new}]
    /\ last' = Called("construct_path", h, thrown, new, p, NULL, "")
    /\ UNCHANGED <<kind, relCount, unguarded, crashed>>

\* void open(const char *path, const char *mode)
open(h, p, ok) ==
    LET old == ptr[h]
        closing == ReopenCloses(h)
        new == IF ok THEN nextRes ELSE NULL
        thrown == OpenThrows(new)
        ptr1 == IF closing THEN ClearedPtr(h) ELSE ptr
        path1 == IF closing THEN ClearedPath(h) ELSE path
        live1 == IF closing THEN StillLive(old) ELSE live
    IN
    /\ ~crashed /\ status[h] = "alive"
    /\ ok => nextRes <= MaxRes
    /\ closing => relCount[old] < MaxRel
    /\ relCount' = IF closing THEN Released(old) ELSE relCount
    /\ \E c \in (IF closing THEN Outcomes(old) ELSE {FALSE}):
         /\ crashed' = c
         /\ IF c
            THEN /\ UNCHANGED <<ptr, path, live, nextRes, acq>>
                 /\ last' = Called("open", h, FALSE, NULL, p, old, path[h])
            ELSE /\ ptr' = [ptr1 EXCEPT ![h] = new]
                 /\ path' = [path1 EXCEPT ![h] = IF thrown THEN @ ELSE RecordedPath(@, p)]
                 /\ live' = IF ok THEN live1 \cup {new} ELSE live1
                 /\ nextRes' = IF ok THEN nextRes + 1 ELSE nextRes
                 /\ acq' = [acq EXCEPT ![h] = IF new = NULL THEN @ ELSE @ \cup {new}]
                 /\ last' = Called("open", h, thrown, new, p, old, path[h])
    /\ UNCHANGED <<kind, status, unguarded>>

\* void close(), called by the user of the handle
close(h) ==
    /\ ~crashed /\ status[h] = "alive"
    /\ relCount[ptr[h]] < MaxRel
    /\ relCount' = Released(ptr[h])
    /\ unguarded' = (unguarded \/ ~is_open(h))
    /\ \E c \in Outcomes(ptr[h]):
         /\ crashed' = c
         /\ live' = IF c THEN live ELSE StillLive(ptr[h])
         /\ ptr' = IF c THEN ptr ELSE ClearedPtr(h)
         /\ path' = IF c THEN path ELSE ClearedPath(h)
    /\ last' = Called("close", h, FALSE, NULL, "", ptr[h], path[h])
    /\ UNCHANGED <<kind, status, nextRes, acq>>

\* ~FpWrapper()
Destroy(h) ==
    LET closing == DtorCloses(h) IN
    /\ ~crashed /\ status[h] = "alive"
    /\ closing => relCount[ptr[h]] < MaxRel
    /\ relCount' = IF closing THEN Released(ptr[h]) ELSE relCount
    /\ \E c \in (IF closing THEN Outcomes(ptr[h]) ELSE {FALSE}):
         /\ crashed' = c
         /\ status' = IF c THEN status ELSE [status EXCEPT ![h] = "dead"]
         /\ live' = IF closing /\ ~c THEN StillLive(ptr[h]) ELSE live
         /\ ptr' = IF closing /\ ~c THEN ClearedPtr(h) ELSE ptr
         /\ path' = IF closing /\ ~c THEN ClearedPath(h) ELSE path
    /\ last' = Called("destroy", h, FALSE, NULL, "", ptr[h], path[h])
    /\ UNCHANGED <<kind, nextRes, acq, unguarded>>

\* read(void *, size_t) / write(const void *, size_t): a backend call on ptr_;
\* neither changes the handle, neither throws.
Transfer(h, op) ==
    /\ ~crashed /\ status[h] = "alive"
    /\ \E c \in Outcomes(ptr[h]): crashed' = c
    /\ last' = Called(op, h, FALSE, NULL, "", ptr[h], path[h])
    /\ UNCHANGED <<kind, status, ptr, path, live, nextRes, relCount, acq, unguarded>>

read(h) == Transfer(h, "read")
write(h) == Transfer(h, "write")

\* The implicitly generated copy constructor: FpWrapper b(a);
CopyConstruct(h, g) ==
    /\ ~crashed /\ status[h] = "none" /\ status[g] = "alive"
    /\ status' = [status EXCEPT ![h] = "alive"]
    /\ ptr' = [ptr EXCEPT ![h] = ptr[g]]
    /\ path' = [path EXCEPT ![h] = path[g]]
    /\ acq' = [acq EXCEPT ![h] = IF ptr[g] = NULL THEN @ ELSE @ \cup {ptr[g]}]
    /\ last' = Called("copy", h, FALSE, NULL, "", NULL, "")
    /\ UNCHANGED <<kind, live, nextRes, relCount, unguarded, crashed>>

\* The implicitly generated copy assignment: b = a;
CopyAssign(h, g) ==
    /\ ~crashed /\ h # g /\ status[h] = "alive" /\ status[g] = "alive"
    /\ ptr' = [ptr EXCEPT ![h] = ptr[g]]
    /\ path' = [path EXCEPT ![h] = path[g]]
    /\ acq' = [acq EXCEPT ![h] = IF ptr[g] = NULL THEN @ ELSE @ \cup {ptr[g]}]
    /\ last' = Called("assign", h, FALSE, NULL, "", ptr[h], path[h])
    /\ UNCHANGED <<kind, status, live, nextRes, relCount, unguarded, crashed>>

\* FpWrapper b(a.ptr()): a second handle built from the raw pointer of a first.
ConstructFromPtr(h, g) ==
    /\ ~crashed /\ status[h] = "none" /\ status[g] = "alive" /\ ptr[g] # NULL
    /\ status' = [status EXCEPT ![h] = "alive"]
    /\ ptr' = [ptr EXCEPT ![h] = ptr[g]]
    /\ path' = [path EXCEPT ![h] = ""]
    /\ acq' = [acq EXCEPT ![h] = @ \cup {ptr[g]}]
    /\ last' = Called("construct", h, FALSE, NULL, "", NULL, "")
    /\ UNCHANGED <<kind, live, nextRes, relCount, unguarded, crashed>>

----------------------------------------------------------------------------
(* The probe machine: get_fsz<std::FILE *> and get_fsz<gzFile> *)

\* char buf[1 << 15]; sizeof(buf)
sizeof_buf == 2^15

Min(a, b) == IF a < b THEN a ELSE b

\* Conversion of a signed integer to std::uint64_t (modulo 2^64), as four 16-bit
\* limbs, least significant first. The model's integers stay below 2^31.
ToU64(n) ==
    IF n >= 0
    THEN <<n % 2^16, (n \div 2^16) % 2^16, 0, 0>>
    ELSE LET m == -n - 1
         IN <<2^16 - 1 - (m % 2^16), 2^16 - 1 - ((m \div 2^16) % 2^16), 2^16 - 1, 2^16 - 1>>

UINT64_MAX == <<2^16 - 1, 2^16 - 1, 2^16 - 1, 2^16 - 1>>

\* The stream lengths tried: around every multiple of the chunk size.
Lengths == {k * sizeof_buf + d : k \in 0..MaxChunks, d \in {0, 1, sizeof_buf - 1}}
\* The request sizes of the reading handle.
ReadSizes == {4096, sizeof_buf, 50000}
\* What an uninitialized fs.st_size may hold when fstat fails.
Garbage == {-1, 0, 7}

\* return -1;  (both specializations, after a failed fopen / gzopen)
FailResultZero(k) == ToU64(0)
FailResult(k) == ToU64(-1)

\* gzread(p, buf, sizeof(buf)): the call numbered failAt fails with -1; any other
\* returns what is left of the stream, at most one buffer.
gzread(n, at, len) == IF n = failAt THEN -1 ELSE Min(len, flen - at)

\* while((i = gzread(...)) == sizeof(buf)): ssize_t compared with size_t
FullChunk(r) == ToU64(r) = ToU64(sizeof_buf)

\* if(i < 0) fprintf(stderr, ...); else tot_read += i;
TailAddDropped(tot, r) == tot
TailAddAlways(tot, r) == tot + r
TailAdd(tot, r) == IF r < 0 THEN tot ELSE tot + r

ProbeInputs ==
    /\ pkind \in Kinds
    /\ openable \in BOOLEAN
    /\ flen \in (IF openable THEN Lengths ELSE {0})
    /\ failAt \in (IF openable /\ pkind = "gz" THEN 0..MaxFail ELSE {0})
    /\ statOK \in (IF openable /\ pkind = "fp" THEN BOOLEAN ELSE {TRUE})
    /\ rnb \in (IF openable THEN ReadSizes ELSE {sizeof_buf})
    /\ pc = "start" /\ pres = "none" /\ closes = 0 /\ nreads = 0 /\ pos = 0
    /\ i = 0 /\ tot_read = 0 /\ st_size = 0 /\ warnings = 0 /\ result = <<>>
    /\ rpc = "idle" /\ rpos = 0 /\ rtot = 0 /\ rret = 0

ProbeOff ==
    /\ pkind = "fp" /\ openable = FALSE /\ flen = 0 /\ failAt = 0 /\ statOK = TRUE
    /\ rnb = sizeof_buf
    /\ pc = "off" /\ pres = "none" /\ closes = 0 /\ nreads = 0 /\ pos = 0
    /\ i = 0 /\ tot_read = 0 /\ st_size = 0 /\ warnings = 0 /\ result = <<>>
    /\ rpc = "off" /\ rpos = 0 /\ rtot = 0 /\ rret = 0

\* if(auto p = std::fopen(path, "rb"); p) / if(auto p = gzopen(path, "rb"); p)
ProbeOpen ==
    /\ pc = "start"
    /\ pres' = IF openable THEN "open" ELSE "none"
    /\ pc' = IF ~openable THEN "fail" ELSE IF pkind = "gz" THEN "loop" ELSE "stat"
    /\ UNCHANGED <<pkind, openable, flen, failAt, statOK, rnb, closes, nreads, pos, i,
                   tot_read, st_size, warnings, result, rpc, rpos, rtot, rret>>

\* struct stat fs; ::fstat(::fileno(p), &fs);
FpStat ==
    /\ pc = "stat"
    /\ st_size' \in (IF statOK THEN {flen} ELSE Garbage)
    /\ pc' = "close"
    /\ UNCHANGED <<pkind, openable, flen, failAt, statOK, rnb, pres, closes, nreads, pos,
                   i, tot_read, warnings, result, rpc, rpos, rtot, rret>>

\* One evaluation of the loop condition, and the body when it holds.
GzLoop ==
    /\ pc = "loop"
    /\ LET r == gzread(nreads + 1, pos, sizeof_buf) IN
         /\ i' = r
         /\ nreads' = nreads + 1
         /\ pos' = IF r > 0 THEN pos + r ELSE pos
         /\ tot_read' = IF FullChunk(r) THEN tot_read + sizeof_buf ELSE tot_read
         /\ pc' = IF FullChunk(r) THEN "loop" ELSE "tail"
    /\ UNCHANGED <<pkind, openable, flen, failAt, statOK, rnb, pres, closes, st_size,
                   warnings, result, rpc, rpos, rtot, rret>>

GzTail ==
    /\ pc = "tail"
    /\ warnings' = IF i < 0 THEN warnings + 1 ELSE warnings
    /\ tot_read' = TailAdd(tot_read, i)
    /\ pc' = "close"
    /\ UNCHANGED <<pkind, openable, flen, failAt, statOK, rnb, pres, closes, nreads, pos,
                   i, st_size, result, rpc, rpos, rtot, rret>>

\* std::fclose(p); / gzclose(p);
ProbeClose ==
    /\ pc = "close"
    /\ pres' = "closed"
    /\ closes' = closes + 1
    /\ pc' = "ret"
    /\ UNCHANGED <<pkind, openable, flen, failAt, statOK, rnb, nreads, pos, i, tot_read,
                   st_size, warnings, result, rpc, rpos, rtot, rret>>

\* return fs.st_size; / return tot_read;
ProbeReturn ==
    /\ pc = "ret"
    /\ result' = ToU64(IF pkind = "gz" THEN tot_read ELSE st_size)
    /\ pc' = "done"
    /\ UNCHANGED <<pkind, openable, flen, failAt, statOK, rnb, pres, closes, nreads, pos,
                   i, tot_read, st_size, warnings, rpc, rpos, rtot, rret>>

ProbeFail ==
    /\ pc = "fail"
    /\ result' = FailResult(pkind)
    /\ pc' = "done"
    /\ UNCHANGED <<pkind, openable, flen, failAt, statOK, rnb, pres, closes, nreads, pos,
                   i, tot_read, st_size, warnings, rpc, rpos, rtot, rret>>

\* After the probe: FpWrapper h(path) on the same, openable, path.
ReaderOpen ==
    /\ pc = "done" /\ rpc = "idle" /\ openable
    /\ rpc' = "reading"
    /\ UNCHANGED <<pkind, openable, flen, failAt, statOK, rnb, pc, pres, closes, nreads,
                   pos, i, tot_read, st_size, warnings, result, rpos, rtot, rret>>

\* auto read(void *ptr, size_t nb): gzread or fread of nb bytes, none failing;
\* the caller sums the counts until one is 0.
HandleRead ==
    /\ rpc = "reading"
    /\ LET r == Min(rnb, flen - rpos) IN
         /\ rret' = r
         /\ rpos' = rpos + r
         /\ rtot' = rtot + r
         /\ rpc' = IF r = 0 THEN "eof" ELSE "reading"
    /\ UNCHANGED <<pkind, openable, flen, failAt, statOK, rnb, pc, pres, closes, nreads,
                   pos, i, tot_read, st_size, warnings, result>>

----------------------------------------------------------------------------
(* Specifications *)

Init == HandleInit /\ ProbeOff

\* The member functions called on the handles of H.
Step(H) ==
    \/ \E h \in H: ConstructDefault(h) /\ UNCHANGED pvars
    \/ \E h \in H: ConstructRaw(h) /\ UNCHANGED pvars
    \/ \E h \in H, p \in Paths, ok \in BOOLEAN: ConstructPath(h, p, ok) /\ UNCHANGED pvars
    \/ \E h \in H, p \in Paths, ok \in BOOLEAN: open(h, p, ok) /\ UNCHANGED pvars
    \/ \E h \in H: close(h) /\ UNCHANGED pvars
    \/ \E h \in H: Destroy(h) /\ UNCHANGED pvars
    \/ \E h \in H: read(h) /\ UNCHANGED pvars
    \/ \E h \in H: write(h) /\ UNCHANGED pvars

\* Every handle is the only holder of what it holds.
Next == Step(Handles)

Spec == Init /\ [][Next]_vars

\* Handles are also copied, and built from each other's raw pointer.
CopyNext ==
    \/ Step(AllHandles)
    \/ \E h, g \in AllHandles: CopyConstruct(h, g) /\ UNCHANGED pvars
    \/ \E h, g \in AllHandles: CopyAssign(h, g) /\ UNCHANGED pvars
    \/ \E h, g \in AllHandles: ConstructFromPtr(h, g) /\ UNCHANGED pvars

CopySpec == Init /\ [][CopyNext]_vars

HandleOff == HandleInit /\ kind = "fp"

ProbeInit == HandleOff /\ ProbeInputs

ProbeNext ==
    \/ ProbeOpen /\ UNCHANGED hvars
    \/ FpStat /\ UNCHANGED hvars
    \/ GzLoop /\ UNCHANGED hvars
    \/ GzTail /\ UNCHANGED hvars
    \/ ProbeClose /\ UNCHANGED hvars
    \/ ProbeReturn /\ UNCHANGED hvars
    \/ ProbeFail /\ UNCHANGED hvars
    \/ ReaderOpen /\ UNCHANGED hvars
    \/ HandleRead /\ UNCHANGED hvars

ProbeSpec == ProbeInit /\ [][ProbeNext]_vars

\* A sequential program takes its next step.
ProbeLive == ProbeSpec /\ WF_vars(ProbeNext)

----------------------------------------------------------------------------
(* Properties *)

Holders(r) == {h \in AllHandles : status[h] = "alive" /\ ptr[h] = r}
Opening == {"open", "construct_path"}

\* C1: a handle used on its own holds at most one live resource: of all the
\* resources it has acquired, the only one still open is the one ptr_ names.
\* open() on an open handle has released the previous resource (once) before the
\* new one is held, and after close() none of its resources is live.
C1_NoLeakOnReopen ==
    /\ \A h \in AllHandles:
         (acq[h] \cap live) = (IF status[h] = "alive" /\ is_open(h) THEN {ptr[h]} ELSE {})
    /\ (last.op = "open" /\ ~last.raised /\ last.prevPtr # NULL)
         => /\ last.prevPtr \notin live
            /\ relCount[last.prevPtr] = 1
            /\ acq[last.h] \cap live = {last.got}
    /\ (last.op = "close" /\ ~crashed) => acq[last.h] \cap live = {}

\* Two successful opens on one handle, then one close: nothing is live.
C1_Witness ==
    /\ last.op = "close" /\ ~crashed
    /\ Cardinality(acq[last.h]) = 2
    /\ last.prevPtr # NULL
    /\ live = {}
    /\ \A r \in acq[last.h]: relCount[r] = 1

\* C2: is_open() is true exactly when ptr_ names a resource, and that resource
\* is open; it is true right after a successful open() and false right after
\* close(), for both instantiations.
C2_IsOpenIffResource ==
    /\ \A h \in AllHandles:
         /\ is_open(h) <=> ptr[h] \in Resources
         /\ (status[h] = "alive" /\ is_open(h)) => ptr[h] \in live
    /\ (last.op \in Opening /\ ~last.raised) => is_open(last.h)
    /\ (last.op = "close" /\ ~crashed) => ~is_open(last.h)

\* close() on an open gzFile handle has just returned.
C2_Witness ==
    /\ last.op = "close" /\ last.prevPtr # NULL /\ kind = "gz"
    /\ ~is_open(last.h)

\* C3: once a handle is destroyed, every resource it acquired has been released
\* exactly once and none is open; the destructor releases ptr_ once when the
\* handle is open and makes no release call when it is closed.
C3_DestroyReleases ==
    /\ [](\A h \in AllHandles: status[h] = "dead" =>
            \A r \in acq[h]: relCount[r] = 1 /\ r \notin live)
    /\ [][\A h \in AllHandles: (status[h] = "alive" /\ status'[h] = "dead") =>
            relCount' = (IF ptr[h] = NULL THEN relCount ELSE Released(ptr[h]))]_vars

\* A handle destroyed while open, after a re-open.
C3_Witness ==
    /\ last.op = "destroy" /\ last.prevPtr # NULL
    /\ status[last.h] = "dead"
    /\ Cardinality(acq[last.h]) = 2
    /\ live = {}

\* C4: every live resource is held by exactly one handle, and no resource is
\* released twice, also when handles are copied or built from one raw pointer.
C4_SingleOwner ==
    /\ \A r \in live: Cardinality(Holders(r)) = 1
    /\ \A r \in Resources: relCount[r] <= 1

\* C5: open() (and the constructor calling it) throws exactly when fopen/gzopen
\* returned null; otherwise ptr_ is the resource acquired and path_ the path
\* given. No other member function throws.
C5_OpenErrorIffNull ==
    /\ (last.op \in Opening /\ ~crashed) =>
         /\ last.raised <=> last.got = NULL
         /\ ~last.raised =>
              /\ ptr[last.h] = last.got
              /\ path[last.h] = last.arg
              /\ last.got \in live
    /\ last.op \notin Opening => ~last.raised

\* open() has just thrown on a handle.
C5_Witness == last.op = "open" /\ last.raised /\ last.got = NULL

\* C9: close() calls the release function on ptr_ whatever it is, then ptr_ is
\* null and path_ empty. The release function has been called on a null pointer
\* exactly when the caller has called close() on a closed handle: open() and
\* the destructor never do it.
C9_NullReleaseOnlyUnguarded ==
    /\ (relCount[NULL] > 0) <=> unguarded
    /\ (last.op = "close" /\ ~crashed) =>
         /\ ptr[last.h] = NULL
         /\ path[last.h] = ""
         /\ relCount[last.prevPtr] >= 1
         /\ last.prevPtr \notin live

\* close() on a closed handle has called the release function on null.
C9_Witness ==
    /\ last.op = "close" /\ last.prevPtr = NULL
    /\ relCount[NULL] = 1 /\ unguarded

\* C10: after open() has thrown the handle is closed and none of its resources
\* is live. If it was open, the resource it held was released exactly once and
\* path_ is empty; if it was closed, path_ is what it was.
C10_FailedOpen ==
    (last.op = "open" /\ last.raised) =>
        /\ ~is_open(last.h)
        /\ acq[last.h] \cap live = {}
        /\ last.prevPtr # NULL =>
             /\ path[last.h] = ""
             /\ relCount[last.prevPtr] = 1
             /\ last.prevPtr \notin live
        /\ last.prevPtr = NULL => path[last.h] = last.prevPath

\* open() has thrown on a handle that was open on a path.
C10_Witness ==
    /\ last.op = "open" /\ last.raised
    /\ last.prevPtr # NULL /\ last.prevPath # ""

\* No call of gzread fails during the scan: a stream of flen bytes takes
\* flen \div sizeof(buf) full reads and one short read.
NoReadFails == failAt = 0 \/ failAt > flen \div sizeof_buf + 1

\* C6: when the path cannot be opened get_fsz returns UINT64_MAX, which is not
\* zero, and closes nothing; when it can, the resource is closed exactly once
\* before the function returns. Both specializations.
C6_ProbeSentinel ==
    /\ closes <= 1
    /\ (pc = "done" /\ ~openable) =>
         result = UINT64_MAX /\ result # ToU64(0) /\ closes = 0 /\ pres = "none"
    /\ (pc \in {"ret", "done"} /\ openable) => closes = 1 /\ pres = "closed"

\* get_fsz<gzFile> has returned for a path that cannot be opened.
C6_Witness == pc = "done" /\ ~openable /\ pkind = "gz" /\ result = UINT64_MAX

\* C7: when no read fails, get_fsz<gzFile> returns the decompressed length,
\* after one read per full chunk and one short read; a handle reading the same
\* stream to its end obtains as many bytes. The scan always ends.
C7_GzProbeSize ==
    /\ []((pc = "done" /\ pkind = "gz" /\ openable /\ NoReadFails) =>
            /\ result = ToU64(flen)
            /\ nreads = flen \div sizeof_buf + 1
            /\ rpc = "eof" => result = ToU64(rtot))
    /\ <>(pc = "done")

\* A stream of exactly two chunks: the short read is a read of 0 bytes.
C7_Witness ==
    /\ pc = "done" /\ pkind = "gz" /\ openable /\ NoReadFails
    /\ flen = 2 * sizeof_buf /\ i = 0 /\ nreads = 3
    /\ rpc = "eof" /\ rnb = 50000

====
